---- MODULE Spec2Model ----
(***************************************************************************)
(* guillotina: the streaming HTTP response (StreamResponse and its          *)
(* AsgiStreamWriter) of guillotina/response.py, driven by request-handling  *)
(* tasks over an ASGI send callable; the materialized responses (Response,  *)
(* RawResponse, ErrorResponse, the status subclasses and the 405 response's *)
(* Allow header); and ApplicationRoot of guillotina/factory/content.py with *)
(* its registry of async utilities and its map of databases.                *)
(*                                                                          *)
(* A coroutine runs atomically from one suspension point to the next.  The  *)
(* suspension points of the streaming code are the awaits of the request's  *)
(* _prepare_hook and of the transport's send; asyncio.Queue() is unbounded, *)
(* so put never suspends, and get is only awaited on a non-empty queue.  A  *)
(* frame counts as handed to the transport when send is called with it.     *)
(***************************************************************************)
EXTENDS Integers, Sequences, FiniteSets, TLC

VARIABLES
    \* StreamResponse fields (response.py:89-118, 196)
    headers, status_code, content_type, content_length,
    payload_writer, eof_sent, keep_alive, req, body_length,
    \* the Request collaborator and the AsgiStreamWriter objects constructed
    request, writers,
    \* the transport: every message passed to send (less those whose send
    \* raised), and the writer that sent it
    sent, sent_by,
    \* per task: position, operation in progress and the stream state it was
    \* called in, writer whose method runs,
    \* _start's local writer, the writer reference the caller holds, last result
    pc, op, at, self_w, start_writer, held, ret,
    \* history: chunks put on each writer's queue, whether write_eof was ever
    \* called before prepare, hook invocations
    enqueued, early_eof, hook_calls,
    \* HTTPMethodNotAllowed under construction (response.py:402-417)
    na_input, na_headers, na_method, na_done,
    \* a materialized response: its class, the constructor's arguments and the
    \* object constructed (response.py:18-80, 231-289)
    cls, arg_status, arg_content, obj,
    \* ApplicationRoot (factory/content.py): _async_utilities, _dbs, the last
    \* call's outcome; the utility object the global site manager provides
    \* for each interface, the asyncio tasks created and those cancelled
    async_utilities, dbs, root_ret, provided, started, cancelled

streamVars == <<headers, status_code, content_type, content_length,
                payload_writer, eof_sent, keep_alive, req, body_length,
                request, writers, sent, sent_by,
                pc, op, at, self_w, start_writer, held, ret,
                enqueued, early_eof, hook_calls>>
naVars == <<na_input, na_headers, na_method, na_done>>
matVars == <<cls, arg_status, arg_content, obj>>
rootVars == <<async_utilities, dbs, root_ret, provided, started, cancelled>>
\* everything but the streaming response
sideVars == <<naVars, matVars, rootVars>>
vars == <<streamVars, sideVars>>

----------------------------------------------------------------------------
\* Bounds of the model
MaxChunks == 3
MaxEofFrames == 2
MaxMethods == 3
MaxTasks == 2
MaxHookCalls == 2

\* The tasks that may drive a response; Driver is the single owning task
Tasks == {"t1", "t2"}
Driver == "t1"

\* Python's None as an object reference (writers are numbered from 1), and an
\* optional attribute value: <<>> for None, <<x>> for the value x
None == 0
Unset == <<>>
Some(x) == <<x>>

----------------------------------------------------------------------------
\* Payloads: byte strings are sequences of byte values, tagged with their type

Bytes(v) == [kind |-> "bytes", val |-> v]
EmptyBytes == Bytes(<<>>)
ByteChunks == {EmptyBytes, Bytes(<<1>>)}
NonBytePayloads == {[kind |-> "str", val |-> <<1>>]}
Payloads == ByteChunks \cup NonBytePayloads

\* isinstance(data, (bytes, bytearray, memoryview))
IsByteish(data) == data.kind \in {"bytes", "bytearray", "memoryview"}

----------------------------------------------------------------------------
\* Headers: CIMultiDict as an ordered sequence of (name, value) entries whose
\* lookups compare names case-insensitively

\* the case-insensitive identity of a header name
istr(name) ==
    CASE name \in {"Content-Type", "content-type", "CONTENT-TYPE"} -> "content-type"
      [] name \in {"Content-Length", "content-length"} -> "content-length"
      [] name \in {"Allow", "allow"} -> "allow"
      [] name = "X-Hook" -> "x-hook"
      [] OTHER -> name

Entry(name, value) == [name |-> name, value |-> value]

HasHeader(h, name) == \E i \in 1..Len(h) : istr(h[i].name) = istr(name)

\* CIMultiDict.setdefault: add the entry only when no entry has that name
setdefault(h, name, value) ==
    IF HasHeader(h, name) THEN h ELSE Append(h, Entry(name, value))

RECURSIVE DropName(_, _)
DropName(h, name) ==
    IF h = <<>> THEN <<>>
    ELSE IF istr(Head(h).name) = istr(name) THEN DropName(Tail(h), name)
         ELSE <<Head(h)>> \o DropName(Tail(h), name)

RECURSIVE ReplaceFirst(_, _, _)
ReplaceFirst(h, name, value) ==
    IF h = <<>> THEN <<>>
    ELSE IF istr(Head(h).name) = istr(name)
         THEN <<Entry(name, value)>> \o DropName(Tail(h), name)
         ELSE <<Head(h)>> \o ReplaceFirst(Tail(h), name, value)

\* CIMultiDict.__setitem__: one entry of that name remains, with the new value
setitem(h, name, value) ==
    IF HasHeader(h, name) THEN ReplaceFirst(h, name, value)
    ELSE Append(h, Entry(name, value))

\* str(n) of a small non-negative integer
str(n) ==
    CASE n = 0 -> "0" [] n = 1 -> "1" [] n = 2 -> "2" [] n = 3 -> "3"
      [] n = 4 -> "4" [] n = 5 -> "5" [] n = 6 -> "6" [] n = 7 -> "7"
      [] n = 8 -> "8" [] n = 9 -> "9"

\* guillotina.asgi.headers_to_list: the entries in order, multi-values kept
headers_to_list(h) == [i \in 1..Len(h) |-> <<h[i].name, h[i].value>>]

\* the headers dict a caller passes to the constructor
HeaderInputs == {
    <<>>,
    <<Entry("content-type", "text/html")>>,
    <<Entry("CONTENT-TYPE", "text/html"), Entry("Content-Length", "7")>> }

ContentTypes == {"text/plain", ""}
ContentLengths == {0, 5}
Statuses == {200}

----------------------------------------------------------------------------
\* Frames of the ASGI protocol

\* (mutant of StartFrame: the start frame sent without the headers)
StartFrame_NoHeaders(h, status) ==
    [type |-> "http.response.start", headers |-> <<>>, status |-> status]

StartFrame(h, status) ==
    [type |-> "http.response.start", headers |-> headers_to_list(h), status |-> status]
BodyFrame(body, more) ==
    [type |-> "http.response.body", body |-> body, more_body |-> more]

\* AsgiStreamWriter.__init__
NewWriter == [buffer |-> <<>>, eof |-> FALSE, output_size |-> 0]

\* the context of a call: the stream state it was made in, and whether its data
\* argument (if it takes one) was byte-like
Ctx(st, b) == [state |-> st, byteish |-> b]
NoCtx == Ctx("none", TRUE)

\* how a call ended: the operation, its context, "return" or the exception
\* raised, and the value returned
Result(o, cx, out, v) ==
    [op |-> o, state |-> cx.state, byteish |-> cx.byteish, out |-> out, val |-> v]
NoResult == Result("none", NoCtx, "none", None)

\* StreamResponse.prepared, and the stream state the fields stand for
prepared == payload_writer # None
State ==
    IF eof_sent THEN "Closed"
    ELSE IF prepared THEN "Prepared" ELSE "NotStarted"

----------------------------------------------------------------------------
\* Materialized responses: classes, documents and the object constructed

\* a response class: the __init__ it inherits and its class attributes
Class(base, status, empty) ==
    [base |-> base, status_code |-> status, empty_body |-> empty]

\* Python values a document is made of; a dict is its items in insertion order
JNone == [kind |-> "NoneType", val |-> <<>>]
JInt(n) == [kind |-> "int", val |-> <<n>>]
JStr(x) == [kind |-> "str", val |-> x]
Dict(items) == [kind |-> "dict", val |-> items]

\* bool(x) is False
Falsy(x) == x.kind = "NoneType" \/ (x.kind \in {"dict", "bytes", "str"} /\ x.val = <<>>)
\* a or b
Or(a, b) == IF Falsy(a) THEN b ELSE a

\* the outcome of a constructor call: the object's attributes, or the exception
Obj(status, content) ==
    [out |-> "return", status_code |-> status, content |-> content, headers |-> <<>>]
Raised(exc) ==
    [out |-> exc, status_code |-> Unset, content |-> JNone, headers |-> <<>>]
NoObj == Raised("none")

MatIdle ==
    /\ cls = Class("Response", Unset, FALSE)
    /\ arg_status = Unset
    /\ arg_content = JNone
    /\ obj = NoObj

----------------------------------------------------------------------------
\* ApplicationRoot(config_file): no utility, no database.  A dict is the set
\* of its items
RootResult(o, key, out, v) == [op |-> o, key |-> key, out |-> out, val |-> v]
NoRootResult == RootResult("none", "none", "none", "None")

RootIdle ==
    /\ async_utilities = {}
    /\ dbs = {}
    /\ root_ret = NoRootResult
    /\ provided = {}
    /\ started = {}
    /\ cancelled = {}

----------------------------------------------------------------------------
\* The state after StreamResponse(headers=..., status=...) is constructed
StreamInit(inputs, keep_alives) ==
    /\ headers \in inputs
    /\ status_code \in Statuses
    /\ content_type = Unset
    /\ content_length = Unset
    /\ payload_writer = None
    /\ eof_sent = FALSE
    /\ keep_alive = Some(TRUE)
    /\ req = Unset
    /\ body_length = Unset
    /\ request \in [keep_alive : keep_alives]
    /\ writers = <<>>
    /\ sent = <<>>
    /\ sent_by = <<>>
    /\ pc = [t \in Tasks |-> "idle"]
    /\ op = [t \in Tasks |-> "none"]
    /\ at = [t \in Tasks |-> NoCtx]
    /\ self_w = [t \in Tasks |-> None]
    /\ start_writer = [t \in Tasks |-> None]
    /\ held = [t \in Tasks |-> None]
    /\ ret = [t \in Tasks |-> NoResult]
    /\ enqueued = <<>>
    /\ early_eof = FALSE
    /\ hook_calls = 0

NaIdle ==
    /\ na_input = <<>>
    /\ na_headers = <<>>
    /\ na_method = <<>>
    /\ na_done = FALSE

\* a response constructed without headers, for a keep-alive request
Init == StreamInit({<<>>}, {TRUE}) /\ NaIdle /\ MatIdle /\ RootIdle

\* a response constructed with any of the header inputs, for any request
HeadersInit == StreamInit(HeaderInputs, BOOLEAN) /\ NaIdle /\ MatIdle /\ RootIdle

----------------------------------------------------------------------------
\* Attributes the handler assigns on the response before it is prepared

SetContentType(v) ==
    /\ State = "NotStarted"
    /\ \A t \in Tasks : pc[t] = "idle"
    /\ content_type' = Some(v)
    /\ UNCHANGED <<headers, status_code, content_length, payload_writer, eof_sent,
                   keep_alive, req, body_length, request, writers, sent, sent_by,
                   pc, op, at, self_w, start_writer, held, ret,
                   enqueued, early_eof, hook_calls, sideVars>>

SetContentLength(n) ==
    /\ State = "NotStarted"
    /\ \A t \in Tasks : pc[t] = "idle"
    /\ content_length' = Some(n)
    /\ UNCHANGED <<headers, status_code, content_type, payload_writer, eof_sent,
                   keep_alive, req, body_length, request, writers, sent, sent_by,
                   pc, op, at, self_w, start_writer, held, ret,
                   enqueued, early_eof, hook_calls, sideVars>>

----------------------------------------------------------------------------
\* A call begins when its task is idle; it ends by returning or raising

CanCall(t) == pc[t] = "idle"

\* the context of a call made now
Here == Ctx(State, TRUE)
HereWith(data) == Ctx(State, IsByteish(data))

\* the bounds: chunks put on one writer's queue, end-of-stream frames sent
CanPut(w) == Len(enqueued[w]) < MaxChunks
EofFrames ==
    {i \in 1..Len(sent) : sent[i].type = "http.response.body" /\ ~sent[i].more_body}
CanDrain == Cardinality(EofFrames) < MaxEofFrames

Finish(t, o, cx, out, v) ==
    /\ ret' = [ret EXCEPT ![t] = Result(o, cx, out, v)]
    /\ pc' = [pc EXCEPT ![t] = "idle"]
    /\ op' = [op EXCEPT ![t] = "none"]
    /\ at' = [at EXCEPT ![t] = NoCtx]
    /\ self_w' = [self_w EXCEPT ![t] = None]

Suspend(t, o, cx, w, where) ==
    /\ pc' = [pc EXCEPT ![t] = where]
    /\ op' = [op EXCEPT ![t] = o]
    /\ at' = [at EXCEPT ![t] = cx]
    /\ self_w' = [self_w EXCEPT ![t] = w]
    /\ UNCHANGED ret

----------------------------------------------------------------------------
\* StreamResponse.prepare and _start

\* _start's keep-alive policy
StartKeepAlive(ka, r) == IF ka = Unset THEN Some(r.keep_alive) ELSE ka

\* (mutant of StartHeaders: the defaults assigned instead of set if absent)
StartHeaders_Override(h, ct, cl) ==
    LET h1 == IF ct # Unset /\ ct[1] # ""
              THEN setitem(h, "Content-Type", ct[1])
              ELSE setitem(h, "Content-Type", "application/octet-stream")
    IN  IF cl # Unset /\ cl[1] # 0
        THEN setitem(h1, "Content-Length", str(cl[1]))
        ELSE h1

\* _start's defaults for Content-Type and Content-Length
StartHeaders(h, ct, cl) ==
    LET h1 == IF ct # Unset /\ ct[1] # ""
              THEN setdefault(h, "Content-Type", ct[1])
              ELSE setdefault(h, "Content-Type", "application/octet-stream")
    IN  IF cl # Unset /\ cl[1] # 0
        THEN setdefault(h1, "Content-Length", str(cl[1]))
        ELSE h1

\* what the request's _prepare_hook may do to the response's headers
HookHeaders(h, mutate) == IF mutate THEN setitem(h, "X-Hook", "1") ELSE h

\* (mutants of PrepareBranch: the check of the writer, or of _eof_sent, left out)
PrepareBranch_NoWriterCheck == IF eof_sent THEN "None" ELSE "start"
PrepareBranch_NoEofCheck == IF payload_writer # None THEN "writer" ELSE "start"

\* prepare up to its await of the hook: "None", "writer" or "start"
PrepareBranch ==
    IF eof_sent THEN "None"
    ELSE IF payload_writer # None THEN "writer" ELSE "start"

prepare(t) ==
    /\ CanCall(t)
    /\ CASE PrepareBranch = "None" ->
              /\ Finish(t, "prepare", Here, "return", None)
              /\ UNCHANGED held
         [] PrepareBranch = "writer" ->
              /\ Finish(t, "prepare", Here, "return", payload_writer)
              /\ held' = [held EXCEPT ![t] = payload_writer]
         [] PrepareBranch = "start" ->
              /\ Suspend(t, "prepare", Here, None, "hook")
              /\ UNCHANGED held
    /\ UNCHANGED <<headers, status_code, content_type, content_length,
                   payload_writer, eof_sent, keep_alive, req, body_length,
                   request, writers, sent, sent_by, start_writer,
                   enqueued, early_eof, hook_calls, sideVars>>

\* the hook completes and _start runs up to its await of request.send
HookReturn(t, mutate) ==
    /\ pc[t] = "hook"
    /\ LET h == StartHeaders(HookHeaders(headers, mutate), content_type, content_length)
           w == Len(writers) + 1
       IN  /\ hook_calls' = hook_calls + 1
           /\ req' = Some("request")
           /\ keep_alive' = StartKeepAlive(keep_alive, request)
           /\ writers' = Append(writers, NewWriter)
           /\ enqueued' = Append(enqueued, <<>>)
           /\ payload_writer' = w
           /\ start_writer' = [start_writer EXCEPT ![t] = w]
           /\ headers' = h
           /\ sent' = Append(sent, StartFrame(h, status_code))
           /\ sent_by' = Append(sent_by, None)
    /\ pc' = [pc EXCEPT ![t] = "start"]
    /\ UNCHANGED <<status_code, content_type, content_length, eof_sent, body_length,
                   request, op, at, self_w, held, ret, early_eof, sideVars>>

\* the start frame's send returns and _start returns its writer
StartReturn(t) ==
    /\ pc[t] = "start"
    /\ Finish(t, "prepare", at[t], "return", start_writer[t])
    /\ held' = [held EXCEPT ![t] = start_writer[t]]
    /\ UNCHANGED <<headers, status_code, content_type, content_length,
                   payload_writer, eof_sent, keep_alive, req, body_length,
                   request, writers, sent, sent_by, start_writer,
                   enqueued, early_eof, hook_calls, sideVars>>

----------------------------------------------------------------------------
\* AsgiStreamWriter

\* AsgiStreamWriter.write: put the chunk on the queue
writer_write(ws, w, chunk) == [ws EXCEPT ![w].buffer = Append(@, chunk)]

\* AsgiStreamWriter.write_eof up to its call of drain
writer_write_eof(ws, w, chunk) == [writer_write(ws, w, chunk) EXCEPT ![w].eof = TRUE]

\* (mutants of DrainStep: the final frame left out; the newest chunk sent first)
DrainStep_NoEofFrame(wr) ==
    IF wr.buffer # <<>>
    THEN [frames |-> <<BodyFrame(Head(wr.buffer), TRUE)>>,
          buffer |-> Tail(wr.buffer), next |-> "drain"]
    ELSE [frames |-> <<>>, buffer |-> wr.buffer, next |-> "return"]
DrainStep_Lifo(wr) ==
    IF wr.buffer # <<>>
    THEN [frames |-> <<BodyFrame(wr.buffer[Len(wr.buffer)], TRUE)>>,
          buffer |-> SubSeq(wr.buffer, 1, Len(wr.buffer) - 1), next |-> "drain"]
    ELSE IF wr.eof
    THEN [frames |-> <<BodyFrame(EmptyBytes, FALSE)>>,
          buffer |-> wr.buffer, next |-> "eofsend"]
    ELSE [frames |-> <<>>, buffer |-> wr.buffer, next |-> "return"]

\* AsgiStreamWriter.drain from its loop test to the next send (or its return)
DrainStep(wr) ==
    IF wr.buffer # <<>>
    THEN [frames |-> <<BodyFrame(Head(wr.buffer), TRUE)>>,
          buffer |-> Tail(wr.buffer), next |-> "drain"]
    ELSE IF wr.eof
    THEN [frames |-> <<BodyFrame(EmptyBytes, FALSE)>>,
          buffer |-> wr.buffer, next |-> "eofsend"]
    ELSE [frames |-> <<>>, buffer |-> wr.buffer, next |-> "return"]

\* the rest of StreamResponse.write_eof, after the writer's write_eof returned
CloseResponse(t, cx) ==
    /\ eof_sent' = TRUE
    /\ req' = Unset
    /\ IF payload_writer = None
       THEN /\ UNCHANGED <<body_length, payload_writer>>
            /\ Finish(t, "write_eof", cx, "AttributeError", None)
       ELSE /\ body_length' = Some(writers[payload_writer].output_size)
            /\ payload_writer' = None
            /\ Finish(t, "write_eof", cx, "return", None)

\* drain returned to the operation o that called it
DrainReturned(t, o, cx) ==
    IF o = "write_eof"
    THEN CloseResponse(t, cx)
    ELSE /\ Finish(t, o, cx, "return", None)
         /\ UNCHANGED <<eof_sent, req, body_length, payload_writer>>

\* task t runs writer w's drain, for operation o, until it suspends or returns;
\* ws is the writers as the caller left them
RunDrain(t, o, cx, w, ws) ==
    LET s == DrainStep(ws[w]) IN
    /\ writers' = [ws EXCEPT ![w].buffer = s.buffer]
    /\ sent' = sent \o s.frames
    /\ sent_by' = sent_by \o [i \in 1..Len(s.frames) |-> w]
    /\ IF s.next = "return"
       THEN DrainReturned(t, o, cx)
       ELSE /\ Suspend(t, o, cx, w, s.next)
            /\ UNCHANGED <<eof_sent, req, body_length, payload_writer>>

Raise(t, o, cx, exc) ==
    /\ Finish(t, o, cx, exc, None)
    /\ UNCHANGED <<eof_sent, req, body_length, payload_writer, writers, sent, sent_by,
                   enqueued>>

\* a body frame's send returned: back to the loop test of drain
DrainResume(t) ==
    /\ pc[t] = "drain"
    /\ RunDrain(t, op[t], at[t], self_w[t], writers)
    /\ UNCHANGED <<headers, status_code, content_type, content_length, keep_alive,
                   request, start_writer, held, enqueued, early_eof, hook_calls,
                   sideVars>>

\* the last frame's send returned: drain returns
EofSendReturn(t) ==
    /\ pc[t] = "eofsend"
    /\ DrainReturned(t, op[t], at[t])
    /\ UNCHANGED <<headers, status_code, content_type, content_length, keep_alive,
                   request, writers, sent, sent_by, start_writer, held,
                   enqueued, early_eof, hook_calls, sideVars>>

\* writer.write(chunk), called on the writer that prepare returned
w_write(t, chunk) ==
    /\ CanCall(t)
    /\ held[t] # None
    /\ CanPut(held[t])
    /\ writers' = writer_write(writers, held[t], chunk)
    /\ enqueued' = [enqueued EXCEPT ![held[t]] = Append(@, chunk)]
    /\ Finish(t, "w.write", HereWith(chunk), "return", None)
    /\ UNCHANGED <<headers, status_code, content_type, content_length,
                   payload_writer, eof_sent, keep_alive, req, body_length,
                   request, sent, sent_by, start_writer, held, early_eof,
                   hook_calls, sideVars>>

\* writer.drain()
w_drain(t) ==
    /\ CanCall(t)
    /\ held[t] # None
    /\ CanDrain
    /\ RunDrain(t, "w.drain", Here, held[t], writers)
    /\ UNCHANGED <<headers, status_code, content_type, content_length, keep_alive,
                   request, start_writer, held, enqueued, early_eof, hook_calls,
                   sideVars>>

\* writer.write_eof(chunk)
w_write_eof(t, chunk) ==
    /\ CanCall(t)
    /\ held[t] # None
    /\ CanPut(held[t])
    /\ enqueued' = [enqueued EXCEPT ![held[t]] = Append(@, chunk)]
    /\ RunDrain(t, "w.write_eof", HereWith(chunk), held[t],
                writer_write_eof(writers, held[t], chunk))
    /\ UNCHANGED <<headers, status_code, content_type, content_length, keep_alive,
                   request, start_writer, held, early_eof, hook_calls, sideVars>>

----------------------------------------------------------------------------
\* StreamResponse.write, drain and write_eof

\* write up to its delegation: the exception it raises, or "put"
WriteBranch(data) ==
    IF ~IsByteish(data) THEN "AssertionError"
    ELSE IF eof_sent THEN "RuntimeError"
    ELSE IF payload_writer = None THEN "RuntimeError"
    ELSE "put"

write(t, data) ==
    /\ CanCall(t)
    /\ payload_writer # None => CanPut(payload_writer)
    /\ IF WriteBranch(data) = "put"
       THEN /\ writers' = writer_write(writers, payload_writer, data)
            /\ enqueued' = [enqueued EXCEPT ![payload_writer] = Append(@, data)]
            /\ Finish(t, "write", HereWith(data), "return", None)
            /\ UNCHANGED <<eof_sent, req, body_length, payload_writer, sent, sent_by>>
       ELSE Raise(t, "write", HereWith(data), WriteBranch(data))
    /\ UNCHANGED <<headers, status_code, content_type, content_length, keep_alive,
                   request, start_writer, held, early_eof, hook_calls, sideVars>>

\* drain up to its delegation: the exception it raises, or "drain"
DrainBranch ==
    IF eof_sent THEN "AssertionError"
    ELSE IF payload_writer = None THEN "AssertionError"
    ELSE "drain"

drain(t) ==
    /\ CanCall(t)
    /\ CanDrain
    /\ IF DrainBranch = "drain"
       THEN /\ RunDrain(t, "drain", Here, payload_writer, writers)
            /\ UNCHANGED enqueued
       ELSE Raise(t, "drain", Here, DrainBranch)
    /\ UNCHANGED <<headers, status_code, content_type, content_length, keep_alive,
                   request, start_writer, held, early_eof, hook_calls, sideVars>>

\* (mutants of WriteEofBranch: the check of _eof_sent left out; a response that
\* was never prepared taken for a closed one)
WriteEofBranch_NoClosedCheck(data) ==
    IF ~IsByteish(data) THEN "AssertionError"
    ELSE IF payload_writer = None THEN "AssertionError"
    ELSE "close"
WriteEofBranch_UnpreparedReturns(data) ==
    IF ~IsByteish(data) THEN "AssertionError"
    ELSE IF eof_sent \/ payload_writer = None THEN "return"
    ELSE "close"

\* write_eof up to its delegation: the exception it raises, "return" or "close"
WriteEofBranch(data) ==
    IF ~IsByteish(data) THEN "AssertionError"
    ELSE IF eof_sent THEN "return"
    ELSE IF payload_writer = None THEN "AssertionError"
    ELSE "close"

write_eof(t, data) ==
    /\ CanCall(t)
    /\ payload_writer # None => CanPut(payload_writer)
    /\ early_eof' = (early_eof \/ (State = "NotStarted" /\ IsByteish(data)))
    /\ CASE WriteEofBranch(data) = "close" ->
              /\ enqueued' = [enqueued EXCEPT ![payload_writer] = Append(@, data)]
              /\ RunDrain(t, "write_eof", HereWith(data), payload_writer,
                          writer_write_eof(writers, payload_writer, data))
         [] WriteEofBranch(data) = "return" ->
              /\ Finish(t, "write_eof", HereWith(data), "return", None)
              /\ UNCHANGED <<eof_sent, req, body_length, payload_writer, writers,
                             sent, sent_by, enqueued>>
         [] OTHER -> Raise(t, "write_eof", HereWith(data), WriteEofBranch(data))
    /\ UNCHANGED <<headers, status_code, content_type, content_length, keep_alive,
                   request, start_writer, held, hook_calls, sideVars>>

----------------------------------------------------------------------------
\* One task drives the response through its own operations

ResponseNext(t) ==
    \/ prepare(t)
    \/ HookReturn(t, FALSE)
    \/ StartReturn(t)
    \/ \E data \in Payloads : write(t, data)
    \/ drain(t)
    \/ \E data \in Payloads : write_eof(t, data)
    \/ DrainResume(t)
    \/ EofSendReturn(t)

\* ... and may also call the writer that prepare returned
WriterNext(t) ==
    \/ \E chunk \in Payloads : w_write(t, chunk)
    \/ w_drain(t)
    \/ \E chunk \in Payloads : w_write_eof(t, chunk)

Next == ResponseNext(Driver) \/ WriterNext(Driver)

Spec == Init /\ [][Next]_vars

\* The handler keeps to the response's operations
ResponseOnlyNext == ResponseNext(Driver)

ResponseSpec == Init /\ [][ResponseOnlyNext]_vars

\* The handshake alone, over every header input and attribute assignment
HeadersNext ==
    \/ \E v \in ContentTypes : SetContentType(v)
    \/ \E n \in ContentLengths : SetContentLength(n)
    \/ prepare(Driver)
    \/ \E mutate \in BOOLEAN : HookReturn(Driver, mutate)
    \/ StartReturn(Driver)

HeadersSpec == HeadersInit /\ [][HeadersNext]_vars

\* The handshake with a hook that may change the headers, up to the close
HookNext ==
    \/ prepare(Driver)
    \/ \E mutate \in BOOLEAN : HookReturn(Driver, mutate)
    \/ StartReturn(Driver)
    \/ \E data \in Payloads : write_eof(Driver, data)
    \/ DrainResume(Driver)
    \/ EofSendReturn(Driver)

HookSpec == HeadersInit /\ [][HookNext]_vars

----------------------------------------------------------------------------
\* The awaited collaborators may raise: the hook, and the transport's send

\* request._prepare_hook raises: prepare raises before _start runs
HookRaise(t) ==
    /\ pc[t] = "hook"
    /\ hook_calls < MaxHookCalls
    /\ hook_calls' = hook_calls + 1
    /\ Finish(t, "prepare", at[t], "HookError", None)
    /\ UNCHANGED <<headers, status_code, content_type, content_length,
                   payload_writer, eof_sent, keep_alive, req, body_length,
                   request, writers, sent, sent_by, start_writer, held,
                   enqueued, early_eof, sideVars>>

\* the frame whose send raised was not transmitted
Withdrawn(q) == SubSeq(q, 1, Len(q) - 1)

\* the start frame's send raises: _start and prepare raise, after _start has
\* assigned _req, _keep_alive, _payload_writer and the headers
StartSendRaise(t) ==
    /\ pc[t] = "start"
    /\ sent' = Withdrawn(sent)
    /\ sent_by' = Withdrawn(sent_by)
    /\ Finish(t, "prepare", at[t], "SendError", None)
    /\ UNCHANGED <<headers, status_code, content_type, content_length,
                   payload_writer, eof_sent, keep_alive, req, body_length,
                   request, writers, start_writer, held,
                   enqueued, early_eof, hook_calls, sideVars>>

\* a body frame's send raises: drain raises, and so does the operation that
\* called it; the chunk was already taken off the queue
BodySendRaise(t) ==
    /\ pc[t] \in {"drain", "eofsend"}
    /\ sent' = Withdrawn(sent)
    /\ sent_by' = Withdrawn(sent_by)
    /\ Finish(t, op[t], at[t], "SendError", None)
    /\ UNCHANGED <<headers, status_code, content_type, content_length,
                   payload_writer, eof_sent, keep_alive, req, body_length,
                   request, writers, start_writer, held,
                   enqueued, early_eof, hook_calls, sideVars>>

FailNext ==
    \/ ResponseNext(Driver)
    \/ HookRaise(Driver)
    \/ StartSendRaise(Driver)
    \/ BodySendRaise(Driver)

FailSpec == Init /\ [][FailNext]_vars

----------------------------------------------------------------------------
\* Two tasks share one response: each runs prepare and write_eof, and they
\* interleave at the awaits of the hook and of send
RaceNext ==
    \E t \in Tasks :
        \/ prepare(t)
        \/ HookReturn(t, FALSE)
        \/ StartReturn(t)
        \/ \E data \in ByteChunks : write_eof(t, data)
        \/ DrainResume(t)
        \/ EofSendReturn(t)

RaceSpec == Init /\ [][RaceNext]_vars

----------------------------------------------------------------------------
\* HTTPMethodNotAllowed(method, allowed_methods, headers=...).  Python strings
\* are sequences of code points here, so that sorting and upper-casing compute

Str_get == <<103, 101, 116>>
Str_post == <<112, 111, 115, 116>>
Str_GET == <<71, 69, 84>>
Str_PUT == <<80, 85, 84>>
Str_comma == <<44>>
MethodPool == {Str_get, Str_post, Str_GET, Str_PUT}

\* the lists of at most n methods
RECURSIVE ListsUpTo(_)
ListsUpTo(n) ==
    IF n = 0 THEN {<<>>}
    ELSE LET shorter == ListsUpTo(n - 1)
         IN  shorter \cup {Append(l, m) : l \in shorter, m \in MethodPool}
MethodLists == ListsUpTo(MaxMethods)

NaHeaderInputs == {<<>>, <<Entry("allow", Str_get)>>}

\* str.upper
upper(x) == [i \in 1..Len(x) |-> IF x[i] \in 97..122 THEN x[i] - 32 ELSE x[i]]

\* a < b on Python strings: lexicographic on code points
RECURSIVE StrLess(_, _)
StrLess(a, b) ==
    IF b = <<>> THEN FALSE
    ELSE IF a = <<>> THEN TRUE
    ELSE IF a[1] < b[1] THEN TRUE
    ELSE IF a[1] > b[1] THEN FALSE
    ELSE StrLess(Tail(a), Tail(b))

RECURSIVE Insert(_, _)
Insert(x, l) ==
    IF l = <<>> THEN <<x>>
    ELSE IF StrLess(x, Head(l)) THEN <<x>> \o l
    ELSE <<Head(l)>> \o Insert(x, Tail(l))

\* (mutant of sorted: the list left in the caller's order)
sorted_Unsorted(l) == l

\* sorted(list of str): ascending, stable
RECURSIVE sorted(_)
sorted(l) ==
    IF l = <<>> THEN <<>>
    ELSE Insert(l[Len(l)], sorted(SubSeq(l, 1, Len(l) - 1)))

\* sep.join(list of str)
RECURSIVE join(_, _)
join(sep, l) ==
    IF l = <<>> THEN <<>>
    ELSE IF Len(l) = 1 THEN l[1]
    ELSE l[1] \o sep \o join(sep, Tail(l))

\* the 405 response before it is constructed: the arguments of the call
NaInit ==
    /\ na_input \in MethodLists
    /\ na_headers \in NaHeaderInputs
    /\ na_method \in {Str_get, Str_PUT}
    /\ na_done = FALSE

HTTPMethodNotAllowed_init ==
    /\ ~na_done
    /\ LET allow == join(Str_comma, sorted(na_input))
       IN  na_headers' = setitem(na_headers, "Allow", allow)
    /\ na_method' = upper(na_method)
    /\ na_done' = TRUE
    /\ UNCHANGED <<na_input, streamVars, matVars, rootVars>>

AllowInit == StreamInit({<<>>}, {TRUE}) /\ NaInit /\ MatIdle /\ RootIdle
AllowNext == HTTPMethodNotAllowed_init
AllowSpec == AllowInit /\ [][AllowNext]_vars

----------------------------------------------------------------------------
\* Response, RawResponse and ErrorResponse construction, and their bodies

Str_null == <<110, 117, 108, 108>>
Str_error == <<101, 114, 114, 111, 114>>
Str_type == <<116, 121, 112, 101>>
Str_message == <<109, 101, 115, 115, 97, 103, 101>>
Str_a == <<97>>

\* Response.default_content
default_content == Dict(<<>>)

\* the classes: the three base types, status subclasses of Response, and
\* raw-byte types that fix a status the way the status subclasses do
Classes == {
    Class("Response", Unset, FALSE),
    Class("RawResponse", Unset, FALSE),
    Class("ErrorResponse", Unset, FALSE),
    Class("Response", Some(200), FALSE),
    Class("Response", Some(204), TRUE),
    Class("Response", Some(205), TRUE),
    Class("Response", Some(404), FALSE),
    Class("RawResponse", Some(200), FALSE),
    Class("RawResponse", Some(204), TRUE) }

\* the status argument: not passed, or one of these
StatusArgs == {Unset, Some(200), Some(204), Some(205)}

\* the content argument: not passed (None), or a document, or bytes
Documents == {JNone, Dict(<<>>), Dict(<< <<Str_a, JInt(1)>> >>)}
RawContents == {JNone, EmptyBytes, Bytes(<<1>>)}
ContentArgs(c) == IF c.base = "RawResponse" THEN RawContents ELSE Documents

\* d[key] = value on a dict
RECURSIVE ItemsSet(_, _, _)
ItemsSet(items, key, value) ==
    IF items = <<>> THEN << <<key, value>> >>
    ELSE IF Head(items)[1] = key THEN << <<key, value>> >> \o Tail(items)
    ELSE <<Head(items)>> \o ItemsSet(Tail(items), key, value)
DictSet(d, key, value) == Dict(ItemsSet(d.val, key, value))

\* json.dumps with its default separators
RECURSIVE json_dumps(_)
json_dumps(x) ==
    CASE x.kind = "NoneType" -> Str_null
      [] x.kind = "int" -> <<48 + x.val[1]>>
      [] x.kind = "str" -> <<34>> \o x.val \o <<34>>
      [] x.kind = "dict" ->
           <<123>>
           \o join(<<44, 32>>,
                   [i \in 1..Len(x.val) |->
                       <<34>> \o x.val[i][1] \o <<34, 58, 32>> \o json_dumps(x.val[i][2])])
           \o <<125>>

\* str.encode('utf-8') of ASCII text
encode(x) == Bytes(x)

\* `if self.status_code:` on the class attribute
HasClassStatus(c) == c.status_code # Unset /\ c.status_code[1] # 0

\* Response.__init__(content=, status=) on an instance of class c
Response_init(c, content, status) ==
    LET content1 == IF c.empty_body THEN JNone ELSE Or(content, default_content)
    IN  IF status # Unset
        THEN IF HasClassStatus(c)
             THEN Raised("ValueError")
             ELSE Obj(status, IF status[1] \in {204, 205} THEN JNone ELSE content1)
        ELSE Obj(c.status_code, content1)

\* RawResponse.__init__(content=, status=): the instance attribute shadows the
\* class attribute, whatever was passed
RawResponse_init(c, content, status) ==
    Obj(status, IF c.empty_body THEN EmptyBytes ELSE Or(content, EmptyBytes))

\* ErrorResponse.__init__(type, message, content=, status=500), reason=None
ErrorResponse_init(c, type, message, content, status) ==
    LET content0 == IF content = JNone THEN Dict(<<>>) ELSE content
        error == Dict(<< <<Str_type, JStr(type)>>, <<Str_message, JStr(message)>> >>)
    IN  Response_init(c, DictSet(content0, Str_error, error),
                      IF status = Unset THEN Some(500) ELSE status)

\* the body property of an object of class c
body(c, o) ==
    IF c.base = "RawResponse" THEN o.content ELSE encode(json_dumps(o.content))

\* the constructor call before it runs: a class and the arguments
MatInit ==
    /\ cls \in Classes
    /\ arg_status \in StatusArgs
    /\ arg_content \in ContentArgs(cls)
    /\ obj = NoObj

New(o) ==
    /\ obj = NoObj
    /\ obj' = o
    /\ UNCHANGED <<cls, arg_status, arg_content, streamVars, naVars, rootVars>>

Response_new ==
    /\ cls.base = "Response"
    /\ New(Response_init(cls, arg_content, arg_status))

RawResponse_new ==
    /\ cls.base = "RawResponse"
    /\ New(RawResponse_init(cls, arg_content, arg_status))

ErrorResponse_new ==
    /\ cls.base = "ErrorResponse"
    /\ New(ErrorResponse_init(cls, Str_type, Str_a, arg_content, arg_status))

MatSpecInit == StreamInit({<<>>}, {TRUE}) /\ NaIdle /\ MatInit /\ RootIdle
MatNext == Response_new \/ RawResponse_new \/ ErrorResponse_new
MatSpec == MatSpecInit /\ [][MatNext]_vars

----------------------------------------------------------------------------
\* ApplicationRoot: the registry of async utilities and the databases

Idents == {"IQueue", "ICache"}
TaskIds == 1..MaxTasks
Keys == {"db", "db2", "db3"}
Handles == {"Database1", "Database2"}

\* key in d, d[key], d[key] = value and del d[key] on a dict of items
In(d, key) == \E e \in d : e.key = key
Get(d, key) == (CHOOSE e \in d : e.key = key).value
Put(d, key, value) == {e \in d : e.key # key} \cup {[key |-> key, value |-> value]}
Del(d, key) == {e \in d : e.key # key}

RootReturn(o, key, out, v) == root_ret' = RootResult(o, key, out, v)

\* asyncio.ensure_future(coroutine): a new task is scheduled
NewTask == CHOOSE k \in TaskIds : k \notin started
ensure_future ==
    /\ started # TaskIds
    /\ started' = started \cup {NewTask}
    /\ RootReturn("ensure_future", "none", "return", "None")
    /\ UNCHANGED <<async_utilities, dbs, provided, cancelled, streamVars, naVars, matVars>>

\* (mutant of add_async_task_map: the entry stored whether or not the id exists)
add_async_task_map_Overwrite(ident, task, config) ==
    Put(async_utilities, ident, [task |-> task, config |-> config])

\* add_async_task's test of the id, and what it stores
add_async_task_out(ident) ==
    IF In(async_utilities, ident) THEN "KeyError" ELSE "return"
add_async_task_map(ident, task, config) ==
    IF In(async_utilities, ident) THEN async_utilities
    ELSE Put(async_utilities, ident, [task |-> task, config |-> config])

add_async_task(ident, task, config) ==
    /\ task \in started
    /\ async_utilities' = add_async_task_map(ident, task, config)
    /\ RootReturn("add_async_task", ident, add_async_task_out(ident), "None")
    /\ UNCHANGED <<dbs, provided, started, cancelled, streamVars, naVars, matVars>>

\* add_async_utility(config): the utility object is constructed and provided
\* (the object numbered as its initialize task) and that task created,
\* before add_async_task looks at the id
add_async_utility(config) ==
    /\ started # TaskIds
    /\ provided' = Put(provided, config.provides, NewTask)
    /\ started' = started \cup {NewTask}
    /\ async_utilities' = add_async_task_map(config.provides, NewTask, config)
    /\ RootReturn("add_async_utility", config.provides,
                  add_async_task_out(config.provides), "None")
    /\ UNCHANGED <<dbs, cancelled, streamVars, naVars, matVars>>

\* cancel_async_utility's test of the id, and the tasks cancelled after it
cancel_out(ident) ==
    IF In(async_utilities, ident) THEN "return" ELSE "KeyError"
cancel_tasks(ident) ==
    IF In(async_utilities, ident)
    THEN cancelled \cup {Get(async_utilities, ident).task}
    ELSE cancelled

cancel_async_utility(ident) ==
    /\ cancelled' = cancel_tasks(ident)
    /\ RootReturn("cancel_async_utility", ident, cancel_out(ident), "None")
    /\ UNCHANGED <<async_utilities, dbs, provided, started, streamVars, naVars, matVars>>

\* del_async_utility(config): cancel, look the utility up, unregister, delete
del_async_utility(config) ==
    LET ident == config.provides IN
    /\ cancelled' = cancel_tasks(ident)
    /\ IF cancel_out(ident) = "KeyError"
       THEN /\ RootReturn("del_async_utility", ident, "KeyError", "None")
            /\ UNCHANGED <<async_utilities, provided>>
       ELSE IF ~In(provided, ident)
       THEN /\ RootReturn("del_async_utility", ident, "ComponentLookupError", "None")
            /\ UNCHANGED <<async_utilities, provided>>
       ELSE /\ provided' = Del(provided, ident)
            /\ async_utilities' = Del(async_utilities, ident)
            /\ RootReturn("del_async_utility", ident, "return", "None")
    /\ UNCHANGED <<dbs, started, streamVars, naVars, matVars>>

Configs == {[provides |-> i] : i \in Idents}

UtilNext ==
    \/ ensure_future
    \/ \E c \in Configs, task \in TaskIds : add_async_task(c.provides, task, c)
    \/ \E c \in Configs : add_async_utility(c)
    \/ \E ident \in Idents : cancel_async_utility(ident)
    \/ \E c \in Configs : del_async_utility(c)

RootInit == StreamInit({<<>>}, {TRUE}) /\ NaIdle /\ MatIdle /\ RootIdle
UtilSpec == RootInit /\ [][UtilNext]_vars

\* root[key] = value
root_setitem(key, value) ==
    /\ dbs' = Put(dbs, key, value)
    /\ RootReturn("__setitem__", key, "return", "None")
    /\ UNCHANGED <<async_utilities, provided, started, cancelled,
                   streamVars, naVars, matVars>>

\* del root[key]
root_delitem(key) ==
    /\ dbs' = Del(dbs, key)
    /\ RootReturn("__delitem__", key, IF In(dbs, key) THEN "return" ELSE "KeyError",
                  "None")
    /\ UNCHANGED <<async_utilities, provided, started, cancelled,
                   streamVars, naVars, matVars>>

\* root[key]: the handle, or KeyError
getitem(key) ==
    IF In(dbs, key) THEN [out |-> "return", val |-> Get(dbs, key)]
    ELSE [out |-> "KeyError", val |-> "None"]

\* await root.get(key): KeyError is caught and None returned
get(key) ==
    /\ LET r == getitem(key)
       IN  IF r.out = "KeyError"
           THEN RootReturn("get", key, "return", "None")
           ELSE RootReturn("get", key, r.out, r.val)
    /\ UNCHANGED <<async_utilities, dbs, provided, started, cancelled,
                   streamVars, naVars, matVars>>

\* await root.asyncget(key): self._dbs[key], nothing caught
asyncget(key) ==
    /\ LET r == getitem(key)
       IN  RootReturn("asyncget", key, r.out, r.val)
    /\ UNCHANGED <<async_utilities, dbs, provided, started, cancelled,
                   streamVars, naVars, matVars>>

DbNext ==
    \/ \E key \in Keys, value \in Handles : root_setitem(key, value)
    \/ \E key \in Keys : root_delitem(key)
    \/ \E key \in Keys : get(key)
    \/ \E key \in Keys : asyncget(key)

DbSpec == RootInit /\ [][DbNext]_vars

----------------------------------------------------------------------------
\* What the transport received

IsBody(f) == f.type = "http.response.body"
IsStart(f) == f.type = "http.response.start"
StartIdx == {i \in 1..Len(sent) : IsStart(sent[i])}
EofIdx(w) == {i \in 1..Len(sent) : sent_by[i] = w /\ ~sent[i].more_body}

\* the bodies of the more_body=true frames writer w sent among the first n frames
RECURSIVE ChunksSent(_, _)
ChunksSent(w, n) ==
    IF n = 0 THEN <<>>
    ELSE ChunksSent(w, n - 1) \o
         (IF sent_by[n] = w /\ sent[n].more_body THEN <<sent[n].body>> ELSE <<>>)

MoreFrames(q) == [i \in 1..Len(q) |-> BodyFrame(q[i], TRUE)]

\* a call that began and ended in this step, and one that is a response operation
RespOps == {"prepare", "write", "drain", "write_eof"}
CallDone(t, o) == pc[t] = "idle" /\ pc'[t] = "idle" /\ ret'[t].op = o
RespStep(t) ==
    \/ pc[t] = "idle" /\ pc'[t] = "idle" /\ ret'[t].op \in RespOps
    \/ pc[t] = "idle" /\ pc'[t] # "idle" /\ op'[t] \in RespOps
    \/ pc[t] # "idle" /\ op[t] \in RespOps

Rank(st) == CASE st = "NotStarted" -> 0 [] st = "Prepared" -> 1 [] st = "Closed" -> 2

----------------------------------------------------------------------------
\* C1 (as amended): once write_eof has completed on a response driven through
\* its own operations, the transport has received the start frame, then one
\* more_body=true frame per chunk enqueued, in enqueue order, the last of them
\* carrying write_eof's final chunk (empty when omitted), then exactly one
\* more_body=false frame whose body is empty, and nothing else.
C1_EofFraming ==
    eof_sent =>
        LET q == enqueued[Len(writers)] IN
        /\ q # <<>>
        /\ IsStart(sent[1])
        /\ sent = <<sent[1]>> \o MoreFrames(q) \o <<BodyFrame(EmptyBytes, FALSE)>>

\* C1 as stated: n more_body=true frames for the n written chunks, then one
\* more_body=false frame whose body is the final chunk.
C1_Original ==
    eof_sent =>
        LET q == enqueued[Len(writers)]
            n == Len(q) - 1
        IN  /\ IsStart(sent[1])
            /\ sent = <<sent[1]>> \o MoreFrames(SubSeq(q, 1, n))
                        \o <<BodyFrame(q[n + 1], FALSE)>>

\* two different chunks were written before write_eof(final) completed
C1_Witness ==
    /\ eof_sent
    /\ pc[Driver] = "idle"
    /\ Len(enqueued[1]) = 3
    /\ enqueued[1][1] # enqueued[1][2]

\* C2: a writer transmits at most one more_body=false frame, and when it hands
\* that frame to the transport its queue holds no chunk.
C2_SingleEofFrame ==
    /\ \A w \in 1..Len(writers) : Cardinality(EofIdx(w)) <= 1
    /\ \A t \in Tasks : pc[t] = "eofsend" => writers[self_w[t]].buffer = <<>>

\* C3: the chunks a writer has transmitted, followed by the chunks still in its
\* queue, are the chunks enqueued on it, in order (FIFO, one more_body=true
\* frame per chunk, none merged, duplicated or dropped); and when a drain has
\* completed the queue is empty, so the transmitted bodies are all the chunks.
C3_FifoDrain ==
    \A w \in 1..Len(writers) :
        /\ ChunksSent(w, Len(sent)) \o writers[w].buffer = enqueued[w]
        /\ (/\ pc[Driver] = "idle"
            /\ ret[Driver].op \in {"drain", "w.drain", "w.write_eof"}
            /\ ret[Driver].out = "return")
           => /\ writers[w].buffer = <<>>
              /\ ChunksSent(w, Len(sent)) = enqueued[w]

\* a drain completed after two different chunks were enqueued
C3_Witness ==
    /\ pc[Driver] = "idle"
    /\ ret[Driver].op = "drain"
    /\ ret[Driver].out = "return"
    /\ Len(enqueued[1]) >= 2
    /\ enqueued[1][1] # enqueued[1][2]
    /\ ChunksSent(1, Len(sent)) = enqueued[1]

\* C4: however often prepare is called, one start frame is transmitted and one
\* writer constructed; a prepare call on a Prepared response returns the
\* response's writer, transmits nothing and constructs nothing.
C4_PrepareOnce ==
    /\ [](/\ Cardinality(StartIdx) <= 1
          /\ Len(writers) <= 1
          /\ State # "NotStarted" => Cardinality(StartIdx) = 1 /\ Len(writers) = 1)
    /\ [][(CallDone(Driver, "prepare") /\ ret'[Driver].state = "Prepared")
          => /\ ret'[Driver].out = "return"
             /\ ret'[Driver].val = payload_writer
             /\ payload_writer' = payload_writer
             /\ writers' = writers
             /\ sent' = sent]_vars

\* prepare was called on a Prepared response and returned its writer
C4_Witness ==
    /\ pc[Driver] = "idle"
    /\ ret[Driver] = Result("prepare", Ctx("Prepared", TRUE), "return", 1)
    /\ payload_writer = 1

\* C5: with byte-like data, write on a NotStarted or Closed response raises the
\* state error and write_eof on a Closed response returns normally; none of
\* them transmits a frame or changes the stream state or the queues.
C5_StateErrors ==
    [][/\ (/\ CallDone(Driver, "write")
           /\ ret'[Driver].state \in {"NotStarted", "Closed"}
           /\ ret'[Driver].byteish)
          => /\ ret'[Driver].out = "RuntimeError"
             /\ UNCHANGED <<sent, writers, eof_sent, payload_writer>>
       /\ (/\ CallDone(Driver, "write_eof")
           /\ ret'[Driver].state = "Closed"
           /\ ret'[Driver].byteish)
          => /\ ret'[Driver].out = "return"
             /\ UNCHANGED <<sent, writers, eof_sent, payload_writer>>]_vars

\* write_eof was called again on a Closed response and returned
C5_Witness ==
    /\ pc[Driver] = "idle"
    /\ ret[Driver] = Result("write_eof", Ctx("Closed", TRUE), "return", None)
    /\ State = "Closed"

\* C6: the stream state only moves forward, Closed is entered from Prepared
\* only, and on a Closed response no response operation transmits a frame and
\* prepare returns None.
C6_ForwardOnly ==
    [][/\ Rank(State') >= Rank(State)
       /\ (State' = "Closed" /\ State # "Closed") => State = "Prepared"
       /\ (State = "Closed" /\ RespStep(Driver)) => sent' = sent
       /\ (CallDone(Driver, "prepare") /\ ret'[Driver].state = "Closed")
          => /\ ret'[Driver].out = "return"
             /\ ret'[Driver].val = None
             /\ writers' = writers]_vars

\* prepare was called on a Closed response
C6_Witness ==
    /\ pc[Driver] = "idle"
    /\ ret[Driver] = Result("prepare", Ctx("Closed", TRUE), "return", None)
    /\ State = "Closed"

\* C7: write_eof on a response that was never prepared raises, leaves it
\* NotStarted and transmits nothing; a write_eof called after a later prepare
\* returns normally and closes the response.
C7_EofBeforePrepare ==
    /\ [][(/\ CallDone(Driver, "write_eof")
           /\ ret'[Driver].state = "NotStarted"
           /\ ret'[Driver].byteish)
          => /\ ret'[Driver].out = "AssertionError"
             /\ State' = "NotStarted"
             /\ UNCHANGED <<sent, writers, eof_sent, payload_writer>>]_vars
    /\ []((/\ early_eof
           /\ pc[Driver] = "idle"
           /\ ret[Driver].op = "write_eof"
           /\ ret[Driver].state = "Prepared"
           /\ ret[Driver].byteish)
          => /\ ret[Driver].out = "return"
             /\ State = "Closed"
             /\ Cardinality(StartIdx) = 1
             /\ Cardinality(EofIdx(1)) = 1)

\* write_eof failed before prepare, and after prepare completed normally
C7_Witness ==
    /\ early_eof
    /\ pc[Driver] = "idle"
    /\ ret[Driver] = Result("write_eof", Ctx("Prepared", TRUE), "return", None)
    /\ State = "Closed"

\* C9: no payload that is not byte-like is in a writer's queue or in a body
\* frame handed to the transport.
C9_OnlyBytesQueued ==
    /\ \A w \in 1..Len(writers) :
         \A i \in 1..Len(writers[w].buffer) : IsByteish(writers[w].buffer[i])
    /\ \A i \in 1..Len(sent) : IsBody(sent[i]) => IsByteish(sent[i].body)

----------------------------------------------------------------------------
\* the values of the entries named `name`, in a header mapping and in a frame
HeaderValues(h, name) ==
    LET es == SelectSeq(h, LAMBDA e : istr(e.name) = name)
    IN  [i \in 1..Len(es) |-> es[i].value]
FrameValues(f, name) ==
    LET es == SelectSeq(f.headers, LAMBDA e : istr(e[1]) = name)
    IN  [i \in 1..Len(es) |-> es[i][2]]

StartSent == Len(sent') = Len(sent) + 1 /\ IsStart(sent'[Len(sent')])

\* Content-Length appears in the start frame beyond what the caller set only
\* when content_length is known and the caller set none
ContentLengthAdded(f) ==
    FrameValues(f, "content-length") # HeaderValues(headers, "content-length")
    => /\ content_length # Unset
       /\ HeaderValues(headers, "content-length") = <<>>

\* C8 (as amended): the start frame carries Content-Type: the caller's entries
\* unchanged if the caller set the header under any letter case; otherwise the
\* response's content_type attribute if the handler set it (non-empty), and
\* "application/octet-stream" if not.  Content-Length is added only when
\* content_length is known and the caller set no such header.
C8_ContentTypeDefault ==
    [][StartSent =>
        LET f == sent'[Len(sent')]
            caller == HeaderValues(headers, "content-type")
        IN  /\ FrameValues(f, "content-type") # <<>>
            /\ caller # <<>> => FrameValues(f, "content-type") = caller
            /\ caller = <<>> =>
                 FrameValues(f, "content-type") =
                    <<IF content_type # Unset /\ content_type[1] # ""
                      THEN content_type[1] ELSE "application/octet-stream">>
            /\ ContentLengthAdded(f)]_vars

\* C8 as stated: without a caller's Content-Type header the value is
\* "application/octet-stream".
C8_Original ==
    [][StartSent =>
        LET f == sent'[Len(sent')]
            caller == HeaderValues(headers, "content-type")
        IN  /\ FrameValues(f, "content-type") # <<>>
            /\ caller # <<>> => FrameValues(f, "content-type") = caller
            /\ caller = <<>> =>
                 FrameValues(f, "content-type") = <<"application/octet-stream">>
            /\ ContentLengthAdded(f)]_vars

\* a response prepared with content_type assigned and no Content-Type header,
\* and with a known content_length
C8_Witness ==
    /\ State = "Prepared"
    /\ content_type = Some("text/plain")
    /\ content_length = Some(5)
    /\ FrameValues(sent[1], "content-type") = <<"text/plain">>
    /\ FrameValues(sent[1], "content-length") = <<"5">>

\* the orders of a list: its rearrangements
Rearrangements(l) ==
    LET n == Len(l)
        perms == {p \in [1..n -> 1..n] : \A i, j \in 1..n : p[i] = p[j] => i = j}
    IN  {[i \in 1..n |-> l[p[i]]] : p \in perms}
Ascending(l) == \A i \in 1..(Len(l) - 1) : ~StrLess(l[i + 1], l[i])

\* C10 (as amended): the 405 response has one Allow header: the method names
\* as given (their case unchanged), in ascending code-point order, joined by
\* commas; for ["get","post","PUT"] it is "PUT,get,post".
C10_AllowSorted ==
    na_done =>
        \E q \in Rearrangements(na_input) :
            /\ Ascending(q)
            /\ HeaderValues(na_headers, "allow") = <<join(Str_comma, q)>>

\* C10 as stated: the names upper-cased, sorted and joined by commas.
C10_Original ==
    na_done =>
        \E q \in Rearrangements([i \in 1..Len(na_input) |-> upper(na_input[i])]) :
            /\ Ascending(q)
            /\ HeaderValues(na_headers, "allow") = <<join(Str_comma, q)>>

\* the 405 response for ["get","post","PUT"], over a stale allow header
C10_Witness ==
    /\ na_done
    /\ na_input = <<Str_get, Str_post, Str_PUT>>
    /\ na_headers = <<Entry("Allow", Str_PUT \o Str_comma \o Str_get \o Str_comma \o Str_post)>>

----------------------------------------------------------------------------
\* C11: for every materialized response type whose class fixes a status code,
\* raw-byte types included, construction with an explicit status fails with
\* the duplicate-status error, and a constructed object's status is the one
\* its class fixes; an explicit status succeeds only for types that fix none.
C11_FixedStatus ==
    obj # NoObj =>
        /\ (HasClassStatus(cls) /\ arg_status # Unset) => obj.out = "ValueError"
        /\ (HasClassStatus(cls) /\ obj.out = "return")
           => obj.status_code = cls.status_code
        /\ (arg_status # Unset /\ obj.out = "return") => ~HasClassStatus(cls)

\* the statuses of a response without a body
NoBodyStatuses == {Some(204), Some(205)}

\* C12: a materialized response whose status is 204 or 205, fixed by its class
\* or passed to the constructor, has empty or absent content and an empty
\* serialized body, whatever content was passed.
C12_EmptyBody ==
    (/\ obj.out = "return"
     /\ \/ obj.status_code \in NoBodyStatuses
        \/ cls.status_code \in NoBodyStatuses
        \/ arg_status \in NoBodyStatuses)
    => /\ Falsy(obj.content)
       /\ body(cls, obj) = EmptyBytes

----------------------------------------------------------------------------
\* a call of the registry made in this step, on an id that is (not) registered
RootCall(o) == root_ret'.op = o
DuplicateAdd == RootCall("add_async_task") /\ In(async_utilities, root_ret'.key)
AbsentCancel ==
    /\ RootCall("cancel_async_utility") \/ RootCall("del_async_utility")
    /\ ~In(async_utilities, root_ret'.key)

\* C13: add_async_task with an id already registered fails with the duplicate
\* error, cancel_async_utility and del_async_utility with an id that is not
\* registered fail with the not-found error, and in these failing cases the
\* id-to-task map is unchanged and no task is cancelled.
C13_RegistryErrors ==
    [][(DuplicateAdd \/ AbsentCancel)
       => /\ root_ret'.out = "KeyError"
          /\ UNCHANGED <<async_utilities, cancelled>>]_vars

\* removing an id that is not registered failed while another utility was
\* registered with its task running
C13_Witness ==
    /\ root_ret = RootResult("del_async_utility", "ICache", "KeyError", "None")
    /\ In(async_utilities, "IQueue")
    /\ ~In(async_utilities, "ICache")
    /\ Get(async_utilities, "IQueue").task \notin cancelled

\* C14: get(key) and asyncget(key) both return None, without raising, for a key
\* that is not registered, and the database handle for a registered key;
\* neither changes the database map.
C14_Lookups ==
    [][(RootCall("get") \/ RootCall("asyncget"))
       => /\ dbs' = dbs
          /\ root_ret'.out = "return"
          /\ root_ret'.val = IF In(dbs, root_ret'.key)
                             THEN Get(dbs, root_ret'.key) ELSE "None"]_vars

----------------------------------------------------------------------------
\* the number of bytes in a sequence of chunks
RECURSIVE TotalBytes(_)
TotalBytes(q) == IF q = <<>> THEN 0 ELSE Len(Head(q).val) + TotalBytes(Tail(q))

\* C15: once write_eof has completed, the recorded body length is the number
\* of bytes passed to write and write_eof, and the response holds neither the
\* request nor the writer.
C15_BodyLength ==
    eof_sent =>
        /\ body_length = Some(TotalBytes(enqueued[Len(writers)]))
        /\ req = Unset
        /\ payload_writer = None

\* C16: once the response is prepared its keep-alive is the request's
\* keep_alive, no override having been set on it; a fresh response prepared
\* for a request whose keep_alive is false ends with keep-alive false.
C16_KeepAlive == prepared => keep_alive = Some(request.keep_alive)

----------------------------------------------------------------------------
\* the hook's invocations: those that completed and those in progress
HookInvocations == hook_calls + Cardinality({t \in Tasks : pc[t] = "hook"})

\* C17: over any sequence of prepare calls the request's _prepare_hook is
\* invoked once; it has completed when the start frame is transmitted, the
\* start frame carries the headers as the hook left them, and a prepare call
\* on a Prepared or Closed response does not invoke the hook.
C17_HookOnce ==
    /\ [](/\ HookInvocations <= 1
          /\ State # "NotStarted" => hook_calls = 1
          /\ StartIdx # {} => hook_calls = 1 /\ \A t \in Tasks : pc[t] # "hook")
    /\ [][/\ StartSent =>
               LET f == sent'[Len(sent')]
               IN  /\ pc[Driver] = "hook"
                   /\ hook_calls' = 1
                   /\ f.headers = headers_to_list(headers')
                   /\ HasHeader(headers', "X-Hook") => FrameValues(f, "x-hook") = <<"1">>
          /\ (pc[Driver] = "idle" /\ pc'[Driver] = "hook") => State = "NotStarted"
          /\ (CallDone(Driver, "prepare") /\ ret'[Driver].state \in {"Prepared", "Closed"})
             => hook_calls' = hook_calls]_vars

\* the hook added a header, the start frame carried it, and prepare was
\* called again after the response was closed
C17_Witness ==
    /\ State = "Closed"
    /\ hook_calls = 1
    /\ FrameValues(sent[1], "x-hook") = <<"1">>
    /\ pc[Driver] = "idle"
    /\ ret[Driver] = Result("prepare", Ctx("Closed", TRUE), "return", None)

----------------------------------------------------------------------------
\* a write or write_eof call that returned normally
WroteOk(t) ==
    /\ pc[t] = "idle"
    /\ ret[t].op \in {"write", "write_eof"}
    /\ ret[t].out = "return"

\* C18: also when the hook or the transport's send raises, a body frame is
\* handed to the transport only after the start frame was transmitted, and a
\* response whose start frame was never transmitted is not in a state where
\* write or write_eof succeeds.
C18_StartBeforeBody ==
    /\ \A i \in 1..Len(sent) :
         IsBody(sent[i]) => \E j \in 1..(i - 1) : IsStart(sent[j])
    /\ StartIdx = {} =>
         /\ ~WroteOk(Driver)
         /\ pc[Driver] = "idle" =>
              /\ WriteBranch(EmptyBytes) # "put"
              /\ WriteEofBranch(EmptyBytes) \notin {"close", "return"}

----------------------------------------------------------------------------
\* task t's call of operation o, made when the response was in state st, is
\* the last call t made and it has ended
Ended(t, o, st) == pc[t] = "idle" /\ ret[t].op = o /\ ret[t].state = st

\* C19: when two tasks call prepare on the same NotStarted response and
\* interleave at the suspension points, at most one start frame is
\* transmitted, at most one writer is constructed, and both callers end up
\* holding the writer the response holds.
C19_PrepareRace ==
    /\ Cardinality(StartIdx) <= 1
    /\ Len(writers) <= 1
    /\ (State = "Prepared" /\ \A t \in Tasks : Ended(t, "prepare", "NotStarted"))
       => \A t \in Tasks : ret[t].out = "return" /\ ret[t].val = payload_writer

\* C20: when two tasks call write_eof on the same Prepared response and
\* interleave at the suspension points of send, exactly one more_body=false
\* frame is transmitted, both calls return without raising, and the response
\* ends Closed with its writer and request released.
C20_CloseRace ==
    (Len(writers) = 1 /\ \A t \in Tasks : Ended(t, "write_eof", "Prepared"))
    => /\ Cardinality(EofFrames) = 1
       /\ \A t \in Tasks : ret[t].out = "return"
       /\ State = "Closed"
       /\ payload_writer = None
       /\ req = Unset

----------------------------------------------------------------------------
\* C21: add_async_utility with a 'provides' id that is already in the utility
\* map fails with the duplicate error and has no side effect: no utility
\* object is registered in place of the existing one, no initialize task is
\* scheduled, and the id's entry in the map is unchanged.
C21_DuplicateUtility ==
    [][(RootCall("add_async_utility") /\ In(async_utilities, root_ret'.key))
       => /\ root_ret'.out = "KeyError"
          /\ UNCHANGED <<async_utilities, provided, started>>]_vars

====
